---- MODULE Spec2Model ----
(***************************************************************************)
(* A model of the streaming secret redactor of bootstrap/redactor.go:      *)
(* NewRedactor compiles the needles into a Boyer-Moore skip table, Write   *)
(* scans one chunk and pushes redacted output to the wrapped writer, Sync  *)
(* writes what Write held back.                                            *)
(*                                                                         *)
(* Bytes are integers 0..255 and byte slices are sequences; the code's     *)
(* 0-based indices are kept (At, Slice).  A Go run-time panic (an index    *)
(* out of range) ends the program: pc = "panicked".                        *)
(***************************************************************************)
EXTENDS Integers, Sequences, FiniteSets, TLC

\* ---------------------------------------------------------------- bounds

\* Total number of bytes handed to Write over a run.
MaxInput == 3

\* Number of Write calls of a run (zero-length chunks included).
MaxWrites == 3

\* Number of Sync calls of a run.
MaxSyncs == 2

\* ------------------------------------------------------------ the inputs

\* The byte values of the model: "a", "b", line feed, carriage return, "X",
\* 0xFF, the two bytes 0xC3 0xA9 of the UTF-8 encoding of U+00E9, and 0xE9.
Bytes == {97, 98, 10, 13, 88, 255, 195, 169, 233}

\* The byte values the chunks are built from freely.
InputBytes == {97, 98, 10}

\* The needle lists a Redactor is constructed with, in registration order.
NeedleSets ==
    { <<>>,
      << <<97>> >>,
      << <<97, 98>> >>,
      << <<98>>, <<97, 98>> >>,
      << <<97, 98>>, <<98>> >>,
      << <<97>>, <<98, 97, 98>> >>,
      << <<98>>, <<97, 98, 98>> >>,
      << <<97, 10, 98>> >>,
      << <<97, 255>> >>,
      << <<195, 169>> >> }

\* The replacements: "X", which shares no byte with a needle, and "b".
Replacements == { <<88>>, <<98>> }

\* What the wrapped writer answers to one Write: nil or an error.
SinkResults == {"nil", "EPIPE"}

RECURSIVE SeqsUpTo(_, _)
SeqsUpTo(S, n) ==
    IF n = 0 THEN { <<>> }
    ELSE LET shorter == SeqsUpTo(S, n - 1)
         IN  shorter \cup { Append(s, b) : s \in shorter, b \in S }

\* The chunks that hold the byte 0xFF.
BinaryChunks == { <<255>> }

\* The chunks that hold a carriage return.
ReturnChunks == { <<13>> }

\* The chunks a Write is called with, by the room left under MaxInput.
Chunks ==
    [room \in 0 .. MaxInput |->
        SeqsUpTo(InputBytes, room)
            \cup { c \in BinaryChunks \cup ReturnChunks : Len(c) <= room }]

\* ------------------------------------------------------ Go slices, bytes

\* s[i] of a Go slice (0-based).
At(s, i) == s[i + 1]

\* s[lo:hi] of a Go slice (0-based, hi exclusive).
Slice(s, lo, hi) == SubSeq(s, lo + 1, hi)

RECURSIVE Concat(_)
Concat(ss) == IF ss = <<>> THEN <<>> ELSE Head(ss) \o Concat(Tail(ss))

\* byte('\r') and byte('\n')
CR == 13
LF == 10

\* The length of Redactor.table; its indices are 0 .. TableLen-1.
TableLen == 255

\* utf8.RuneError, what ranging over a string yields for a byte that is no
\* valid UTF-8.
RuneError == 65533

\* The rune that `for i, ch := range needle` yields at byte index i of the
\* needle, and the number of bytes it takes: an ASCII byte is its own rune;
\* a lead byte 0xC2..0xDF followed by a continuation byte 0x80..0xBF is a
\* two-byte rune; any other byte here decodes to utf8.RuneError, one byte
\* wide.  (The lead bytes of three- and four-byte runes, 0xE0..0xF4, are in
\* no needle of the model.)
RuneAt(s, i) ==
    LET b0 == At(s, i)
    IN  IF b0 < 128 THEN [rune |-> b0, width |-> 1]
        ELSE IF /\ b0 >= 194 /\ b0 <= 223
                /\ i + 1 < Len(s)
                /\ At(s, i + 1) >= 128 /\ At(s, i + 1) <= 191
        THEN [rune |-> (b0 - 192) * 64 + (At(s, i + 1) - 128), width |-> 2]
        ELSE [rune |-> RuneError, width |-> 1]

\* ------------------------------------------------------------ NewRedactor

\* The loop over the needles that finds the shortest and the longest length.
RECURSIVE NeedleLens(_, _, _)
NeedleLens(needles, minNeedleLen, maxNeedleLen) ==
    IF needles = <<>> THEN [min |-> minNeedleLen, max |-> maxNeedleLen]
    ELSE LET n == Len(Head(needles))
         IN  NeedleLens(Tail(needles),
                        IF n < minNeedleLen \/ minNeedleLen = 0 THEN n ELSE minNeedleLen,
                        IF n > maxNeedleLen THEN n ELSE maxNeedleLen)

\* The indices of the table that the bytes of the model can reach.  The
\* table of the code has an entry for every i in 0 .. TableLen-1; the
\* entries of byte values that occur nowhere in the model are left out.
TableIndex == { b \in Bytes : b < TableLen }

\* Every entry starts with the shortest needle's length and no needles.
DefaultTable(minNeedleLen) ==
    [i \in TableIndex |-> [skip |-> minNeedleLen, needles |-> <<>>]]

\* One needle's pass over the table, from byte i on: i is the byte index of
\* a rune and ch the rune.  Indexing the table with a rune >= TableLen
\* panics.
RECURSIVE CompileNeedle(_, _, _)
CompileNeedle(table, needle, i) ==
    IF i >= Len(needle) THEN [panic |-> FALSE, table |-> table]
    ELSE LET ch   == RuneAt(needle, i).rune
             skip == Len(needle) - i - 1
         IN  IF ch >= TableLen THEN [panic |-> TRUE, table |-> table]
             ELSE LET t1 == IF skip < table[ch].skip
                            THEN [table EXCEPT ![ch].skip = skip]
                            ELSE table
                      t2 == IF skip = 0
                            THEN [t1 EXCEPT ![ch].needles = Append(@, needle)]
                            ELSE t1
                  IN  CompileNeedle(t2, needle, i + RuneAt(needle, i).width)

\* The loop over the needles that fills the table.
RECURSIVE CompileTable(_, _)
CompileTable(table, needles) ==
    IF needles = <<>> THEN [panic |-> FALSE, table |-> table]
    ELSE LET c == CompileNeedle(table, Head(needles), 0)
         IN  IF c.panic THEN c ELSE CompileTable(c.table, Tail(needles))

\* NewRedactor(output, replacement, needles): the Redactor, or a panic.
NewRedactorFn(repl, needleList) ==
    LET lens == NeedleLens(needleList, 0, 0)
        c    == CompileTable(DefaultTable(lens.min), needleList)
    IN  [panic    |-> c.panic,
         redactor |-> [replacement |-> repl,
                       offset      |-> lens.min - 1,
                       minlen      |-> lens.min,
                       maxlen      |-> lens.max,
                       table       |-> c.table,
                       outbuf      |-> <<>>]]

\* ------------------------------------------------------------------ Write

\* The bytes a needle that ends at cursor is compared against: a slice of
\* input when the needle starts inside input, outbuf[-startSubstr-1:]
\* followed by input[:cursor] when it starts at most len(outbuf) before
\* input, and nothing to compare (ok = FALSE) when it starts earlier.
Candidate(outbuf, input, cursor, startSubstr) ==
    IF startSubstr >= 0
    THEN [ok |-> TRUE, bytes |-> Slice(input, startSubstr, cursor)]
    ELSE IF -startSubstr <= Len(outbuf)
    THEN [ok |-> TRUE,
          bytes |-> Slice(outbuf, -startSubstr - 1, Len(outbuf)) \o Slice(input, 0, cursor)]
    ELSE [ok |-> FALSE, bytes |-> <<>>]

\* A needle matched from startSubstr to cursor: outbuf loses the part of the
\* match it holds, or gains the input before the match, then gains the
\* replacement; doneTo moves to cursor, and cursor minlen-1 further.
Redact(r, input, cursor, doneTo, outbuf, startSubstr) ==
    LET kept == IF startSubstr < 0
                THEN Slice(outbuf, 0, Len(outbuf) + startSubstr)
                ELSE IF startSubstr > doneTo
                     THEN outbuf \o Slice(input, doneTo, startSubstr)
                     ELSE outbuf
    IN  [cursor |-> cursor + r.minlen - 1,
         doneTo |-> cursor,
         outbuf |-> kept \o r.replacement]

\* The loop over the needles that end in the byte under the cursor (cursor
\* is already moved past that byte).  The first needle that matches is
\* replaced; none matching leaves everything as it is.
RECURSIVE TryNeedles(_, _, _, _, _, _)
TryNeedles(r, input, cursor, doneTo, outbuf, cands) ==
    IF cands = <<>> THEN [cursor |-> cursor, doneTo |-> doneTo, outbuf |-> outbuf]
    ELSE LET needle      == Head(cands)
             startSubstr == cursor - Len(needle)
             candidate   == Candidate(outbuf, input, cursor, startSubstr)
         IN  IF candidate.ok /\ needle = candidate.bytes
             THEN Redact(r, input, cursor, doneTo, outbuf, startSubstr)
             ELSE TryNeedles(r, input, cursor, doneTo, outbuf, Tail(cands))

\* A skip moved the cursor: the input further than maxlen behind it is
\* copied to outbuf, and doneTo moves up to it.
Confirm(r, input, cursor, doneTo, outbuf) ==
    LET behind      == cursor - r.maxlen - 1
        confirmedTo == IF behind > Len(input) THEN Len(input) ELSE behind
    IN  IF confirmedTo > doneTo
        THEN [doneTo |-> confirmedTo,
              outbuf |-> outbuf \o Slice(input, doneTo, confirmedTo)]
        ELSE [doneTo |-> doneTo, outbuf |-> outbuf]

\* The scan loop of Write.  input[cursor] panics for a negative cursor, and
\* table[ch] for a byte >= TableLen.
RECURSIVE Scan(_, _, _, _, _)
Scan(r, input, cursor, doneTo, outbuf) ==
    IF ~(cursor < Len(input))
    THEN [panic |-> FALSE, cursor |-> cursor, doneTo |-> doneTo, outbuf |-> outbuf]
    ELSE IF cursor < 0 \/ At(input, cursor) >= TableLen
    THEN [panic |-> TRUE, cursor |-> cursor, doneTo |-> doneTo, outbuf |-> outbuf]
    ELSE LET ch   == At(input, cursor)
             skip == r.table[ch].skip
         IN  IF skip # 0
             THEN LET c == Confirm(r, input, cursor + skip, doneTo, outbuf)
                  IN  Scan(r, input, cursor + skip, c.doneTo, c.outbuf)
             ELSE LET m == TryNeedles(r, input, cursor + 1, doneTo, outbuf,
                                      r.table[ch].needles)
                  IN  Scan(r, input, m.cursor, m.doneTo, m.outbuf)

\* LineFlush with the bug of pushing through line feeds only.
RECURSIVE LineFlushNoCR(_, _, _, _)
LineFlushNoCR(input, i, doneTo, outbuf) ==
    IF ~(i < Len(input)) THEN [doneTo |-> doneTo, outbuf |-> outbuf]
    ELSE IF At(input, i) = LF
         THEN LineFlushNoCR(input, i + 1, i + 1, outbuf \o Slice(input, doneTo, i + 1))
         ELSE LineFlushNoCR(input, i + 1, doneTo, outbuf)

\* The loop that pushes through everything up to a line ending.
RECURSIVE LineFlush(_, _, _, _)
LineFlush(input, i, doneTo, outbuf) ==
    IF ~(i < Len(input)) THEN [doneTo |-> doneTo, outbuf |-> outbuf]
    ELSE IF At(input, i) = CR \/ At(input, i) = LF
         THEN LineFlush(input, i + 1, i + 1, outbuf \o Slice(input, doneTo, i + 1))
         ELSE LineFlush(input, i + 1, doneTo, outbuf)

\* PushDown with the bug of forgetting what outbuf held when nothing is done.
PushDownForgets(outbuf, input, doneTo) ==
    IF doneTo > 0
    THEN [sunk |-> << outbuf >>, outbuf |-> Slice(input, doneTo, Len(input))]
    ELSE [sunk |-> <<>>, outbuf |-> input]

\* PushDown with the bug of writing to the wrapped writer in every Write.
PushDownAlways(outbuf, input, doneTo) ==
    IF doneTo >= 0
    THEN [sunk |-> << outbuf >>, outbuf |-> Slice(input, doneTo, Len(input))]
    ELSE [sunk |-> <<>>, outbuf |-> outbuf \o input]

\* PushDown with the bug of retaining the whole input after a push.
PushDownKeepsAll(outbuf, input, doneTo) ==
    IF doneTo > 0
    THEN [sunk |-> << outbuf >>, outbuf |-> input]
    ELSE [sunk |-> <<>>, outbuf |-> outbuf \o input]

\* The end of Write: with something done, outbuf goes to the wrapped writer
\* and the rest of the input is retained; with nothing done, the input is
\* added to outbuf.  sunk is the list of the slices handed to the writer.
PushDown(outbuf, input, doneTo) ==
    IF doneTo > 0
    THEN [sunk |-> << outbuf >>, outbuf |-> Slice(input, doneTo, Len(input))]
    ELSE [sunk |-> <<>>, outbuf |-> outbuf \o input]

\* NextOffset with the bug of counting one byte too many.
NextOffsetShort(cursor, input) == cursor - Len(input) - 1

\* The offset the next Write starts from.
NextOffset(cursor, input) == cursor - Len(input)

\* WriteReturn with the bug of reporting nothing consumed on an error.
WriteReturnZeroOnError(input, err) ==
    [n |-> IF err = "nil" THEN Len(input) ELSE 0, err |-> err]

\* WriteReturn with the bug of dropping the wrapped writer's error.
WriteReturnNil(input, err) == [n |-> Len(input), err |-> "nil"]

\* What Write returns, err being the wrapped writer's answer (nil when it
\* was not called).
WriteReturn(input, err) == [n |-> Len(input), err |-> err]

\* Redactor.Write(input) on Redactor r, up to the wrapped writer's answer.
WriteFn(r, input) ==
    LET s == Scan(r, input, r.offset, 0, r.outbuf)
    IN  IF s.panic
        THEN [panic |-> TRUE, sunk |-> <<>>, doneTo |-> s.doneTo,
              redactor |-> [r EXCEPT !.outbuf = s.outbuf]]
        ELSE LET l == LineFlush(input, s.doneTo, s.doneTo, s.outbuf)
                 p == PushDown(l.outbuf, input, l.doneTo)
             IN  [panic |-> FALSE, sunk |-> p.sunk, doneTo |-> l.doneTo,
                  redactor |-> [r EXCEPT !.outbuf = p.outbuf,
                                         !.offset = NextOffset(s.cursor, input)]]

\* ------------------------------------------------------------------- Sync

\* Redactor.Sync() has a value receiver: it writes outbuf to the wrapped
\* writer and truncates the outbuf of its own copy of the Redactor, so the
\* caller's Redactor is as it was.
SyncFn(r) == [sunk |-> << r.outbuf >>, redactor |-> r]

\* What Sync returns, err being the wrapped writer's answer.
SyncReturn(err) == err

\* ------------------------------------------------------------- the system

VARIABLES
    pc,           \* "new", "ready" or "panicked"
    needles,      \* the needles given to NewRedactor
    replacement,  \* the replacement given to NewRedactor
    redactor,     \* the Redactor
    sink,         \* every byte handed to the wrapped writer, in order
    chunks,       \* the inputs of the Writes so far, in order
    syncs,        \* the number of Syncs so far
    lastCall      \* the last call: its operation, input and results

vars == << pc, needles, replacement, redactor, sink, chunks, syncs, lastCall >>

\* op: the operation; input: its chunk; panic: it panicked; n, err: what it
\* returned; sunk: the slices it handed to the wrapped writer; answer: what
\* the wrapped writer answered; doneTo: Write's doneTo at its end; before:
\* outbuf as the call began.
NoCall == [op |-> "none", input |-> <<>>, panic |-> FALSE, n |-> 0, err |-> "nil",
           sunk |-> <<>>, answer |-> "nil", doneTo |-> 0, before |-> <<>>]

\* The Redactor before NewRedactor has run: Go's zero value.
ZeroRedactor ==
    [replacement |-> <<>>, offset |-> 0, minlen |-> 0, maxlen |-> 0,
     table |-> DefaultTable(0), outbuf |-> <<>>]

Init ==
    /\ pc = "new"
    /\ needles \in NeedleSets
    /\ replacement \in Replacements
    /\ redactor = ZeroRedactor
    /\ sink = <<>>
    /\ chunks = <<>>
    /\ syncs = 0
    /\ lastCall = NoCall

NewRedactor ==
    /\ pc = "new"
    /\ LET c == NewRedactorFn(replacement, needles)
       IN  /\ pc' = IF c.panic THEN "panicked" ELSE "ready"
           /\ redactor' = c.redactor
           /\ lastCall' = [NoCall EXCEPT !.op = "NewRedactor", !.panic = c.panic]
    /\ UNCHANGED << needles, replacement, sink, chunks, syncs >>

\* The wrapped writer answers each slice it is handed.
Write(input) ==
    /\ pc = "ready"
    /\ Len(chunks) < MaxWrites
    /\ Len(Concat(chunks)) + Len(input) <= MaxInput
    /\ \E w \in { WriteFn(redactor, input) } :
           /\ redactor' = w.redactor
           /\ chunks' = Append(chunks, input)
           /\ sink' = sink \o Concat(w.sunk)
           /\ pc' = IF w.panic THEN "panicked" ELSE "ready"
           /\ \E answer \in (IF w.sunk = <<>> THEN {"nil"} ELSE SinkResults) :
                  LET ret == WriteReturn(input, answer)
                  IN  lastCall' = [op |-> "Write", input |-> input, panic |-> w.panic,
                                   n |-> IF w.panic THEN 0 ELSE ret.n,
                                   err |-> IF w.panic THEN "nil" ELSE ret.err,
                                   sunk |-> w.sunk,
                                   answer |-> answer,
                                   doneTo |-> w.doneTo,
                                   before |-> redactor.outbuf]
    /\ UNCHANGED << needles, replacement, syncs >>

Sync ==
    /\ pc = "ready"
    /\ syncs < MaxSyncs
    /\ \E s \in { SyncFn(redactor) } :
           /\ redactor' = s.redactor
           /\ sink' = sink \o Concat(s.sunk)
           /\ \E answer \in SinkResults :
                  lastCall' = [op |-> "Sync", input |-> <<>>, panic |-> FALSE,
                               n |-> 0, err |-> SyncReturn(answer),
                               sunk |-> s.sunk, answer |-> answer,
                               doneTo |-> 0, before |-> redactor.outbuf]
    /\ syncs' = syncs + 1
    /\ UNCHANGED << pc, needles, replacement, chunks >>

Next ==
    \/ NewRedactor
    \/ \E input \in Chunks[MaxInput - Len(Concat(chunks))] : Write(input)
    \/ Sync

Spec == Init /\ [][Next]_vars

\* ------------------------------------------------------------ the claims

\* All the input of the Writes so far.
written == Concat(chunks)

\* The run so far is some Writes followed by one Sync, none of which
\* panicked: sink is the output of the run.
FlushedOnce == pc = "ready" /\ syncs = 1 /\ lastCall.op = "Sync"

\* Needle n occurs in s at (0-based) index i.
OccursAt(n, s, i) == i >= 0 /\ i + Len(n) <= Len(s) /\ Slice(s, i, i + Len(n)) = n

Contains(s, n) == \E i \in 0 .. Len(s) : OccursAt(n, s, i)

\* No needle of the list occurs in s.
NeedleFree(needleList, s) ==
    \A j \in 1 .. Len(needleList) : ~Contains(s, needleList[j])

\* The occurrences of needles in s: << j, i >> for needle j at index i.
Occurrences(needleList, s) ==
    { ji \in (1 .. Len(needleList)) \X (0 .. Len(s)) :
          OccursAt(needleList[ji[1]], s, ji[2]) }

HasLineEnd(s) == \E i \in 1 .. Len(s) : s[i] = CR \/ s[i] = LF

\* No needle holds a byte of the replacement or a line ending.
PlainSecrets ==
    \A j \in 1 .. Len(needles) :
        /\ ~HasLineEnd(needles[j])
        /\ \A i \in 1 .. Len(needles[j]) : \A k \in 1 .. Len(replacement) :
               needles[j][i] # replacement[k]

\* What a new Redactor hands to the wrapped writer for one Write of the
\* whole input followed by one Sync.
OneShot(repl, needleList, input) ==
    LET c == NewRedactorFn(repl, needleList)
    IN  IF c.panic THEN [panic |-> TRUE, out |-> <<>>]
        ELSE LET w == WriteFn(c.redactor, input)
             IN  IF w.panic THEN [panic |-> TRUE, out |-> <<>>]
                 ELSE [panic |-> FALSE,
                       out |-> Concat(w.sunk) \o Concat(SyncFn(w.redactor).sunk)]

\* C1 (chunking invariance): after Writes of any chunks and one Sync, the
\* bytes handed to the wrapped writer are those that one Write of the
\* concatenated chunks and one Sync hand to it.  Stated for needles without
\* a line ending, which the line flush is documented to miss, and for the
\* inputs whose one Write does not panic.
C1_ChunkingInvariance ==
    (FlushedOnce /\ \A j \in 1 .. Len(needles) : ~HasLineEnd(needles[j]))
        => LET whole == OneShot(replacement, needles, written)
           IN  ~whole.panic => sink = whole.out

\* C2 (no leakage): with a replacement that contains no needle, after
\* Writes and one Sync no needle occurs in the output, needles that hold a
\* line ending aside.  Stated for a replacement that shares no byte with a
\* needle, so that an occurrence in the output is made of input bytes.
C2_NoLeakage ==
    (FlushedOnce /\ PlainSecrets) => NeedleFree(needles, sink)

\* C3 (boundary-split match): a needle whose first k bytes end one chunk and
\* whose other bytes begin the next one, 0 < k < len(needle), with
\* needle-free bytes before and after and no other occurrence of a needle in
\* the input, is replaced: the output is the bytes before, the replacement,
\* the bytes after.
C3_BoundarySplitMatch ==
    (FlushedOnce /\ PlainSecrets /\ Len(chunks) = 2)
        => \A j \in 1 .. Len(needles) : \A k \in 1 .. Len(needles[j]) - 1 :
               LET needle == needles[j]
                   before == Len(chunks[1]) - k
                   after  == Slice(chunks[2], Len(needle) - k, Len(chunks[2]))
               IN  (/\ before >= 0
                    /\ Len(chunks[2]) >= Len(needle) - k
                    /\ OccursAt(needle, written, before)
                    /\ Occurrences(needles, written) = { << j, before >> })
                       => sink = Slice(chunks[1], 0, before) \o replacement \o after

\* The input is clean: there are needles, and none occurs in the input.
CleanInput == needles # <<>> /\ NeedleFree(needles, written)

\* C4 (identity on clean input): with a non-empty needle list and an input
\* in which no needle occurs, whatever the chunks, the output after the
\* Writes and one Sync is the input.
C4_IdentityOnCleanInput ==
    (FlushedOnce /\ CleanInput) => sink = written

\* C4's case: a clean input of three bytes written in two chunks or more,
\* part of it pushed down by a Write and the rest by Sync.
C4_Witness ==
    /\ FlushedOnce /\ CleanInput
    /\ Len(chunks) >= 2 /\ Len(written) = 3
    /\ lastCall.sunk # << <<>> >> /\ lastCall.sunk # << written >>
    /\ sink = written

\* The input of the one Write is A + needle j + B, with needle j at index i:
\* no needle occurs in A or in B or across either end of needle j.
OneMatchAt(j, i) ==
    LET needle == needles[j]
        A == Slice(written, 0, i)
        B == Slice(written, i + Len(needle), Len(written))
    IN  /\ OccursAt(needle, written, i)
        /\ NeedleFree(needles, A)
        /\ NeedleFree(needles, B)
        /\ \A o \in Occurrences(needles, written) :
               LET from == o[2]
                   to   == o[2] + Len(needles[o[1]])
               IN  /\ ~(from < i /\ i < to)
                   /\ ~(from < i + Len(needle) /\ i + Len(needle) < to)

\* A + replacement + B for the needle j at index i.
Substituted(j, i) ==
    Slice(written, 0, i) \o replacement
        \o Slice(written, i + Len(needles[j]), Len(written))

\* C5 (exact substitution in a single call): for the input A + needle + B
\* written in one Write and followed by Sync, with no needle in A or B and
\* none across the ends of the needle, the output is A + replacement + B.
\* Stated for the inputs in which that needle is the only occurrence of a
\* needle.
C5_ExactSubstitution ==
    (FlushedOnce /\ Len(chunks) = 1)
        => \A j \in 1 .. Len(needles) : \A i \in 0 .. Len(written) :
               (OneMatchAt(j, i) /\ Occurrences(needles, written) = { << j, i >> })
                   => sink = Substituted(j, i)

\* C6 (empty needle list): with no needles every Write completes without
\* failure, and after Sync the output is the input.
C6_EmptyNeedleSetPassThrough ==
    needles = <<>> => (pc # "panicked" /\ (FlushedOnce => sink = written))

\* C7 (Sync drains): when Sync has returned, outbuf is empty.
C7_SyncDrains ==
    (pc = "ready" /\ lastCall.op = "Sync") => redactor.outbuf = <<>>

\* C8 (bounded retention): when a Write has returned, outbuf holds at most
\* maxlen - 1 bytes.
C8_BoundedRetention ==
    (pc = "ready" /\ lastCall.op = "Write")
        => Len(redactor.outbuf) <= redactor.maxlen - 1

\* C9 (bytes consumed): a Write that returns reports len(chunk), whatever
\* the wrapped writer answered.
C9_WriteReportsLen ==
    (lastCall.op = "Write" /\ ~lastCall.panic) => lastCall.n = Len(lastCall.input)

\* C9's case: a Write of a chunk that is not empty, whose write to the
\* wrapped writer failed.
C9_Witness ==
    /\ lastCall.op = "Write" /\ ~lastCall.panic
    /\ lastCall.input # <<>>
    /\ lastCall.sunk # <<>> /\ lastCall.answer # "nil"
    /\ lastCall.n = Len(lastCall.input)

\* C10 (errors of the wrapped writer): a Write that returns has written to
\* the wrapped writer at most once and returns its answer, nil when it did
\* not write; Sync writes once and returns the answer.
C10_SinkErrorPropagates ==
    /\ (lastCall.op = "Write" /\ ~lastCall.panic)
           => /\ Len(lastCall.sunk) <= 1
              /\ lastCall.err = IF lastCall.sunk = <<>> THEN "nil" ELSE lastCall.answer
    /\ lastCall.op = "Sync"
           => /\ Len(lastCall.sunk) = 1
              /\ lastCall.err = lastCall.answer

\* C10's case: a Write whose one write to the wrapped writer failed, and
\* which returned that error.
C10_Witness ==
    /\ lastCall.op = "Write" /\ ~lastCall.panic
    /\ Len(lastCall.sunk) = 1
    /\ lastCall.answer = "EPIPE" /\ lastCall.err = "EPIPE"

\* C11 (zero-length chunks): with a non-empty needle list, a Write of an
\* empty chunk does not panic, writes nothing to the wrapped writer and
\* leaves the Redactor (offset and outbuf among its fields) as it was.
C11_EmptyChunkTolerated ==
    [][(needles # <<>> /\ chunks' = Append(chunks, <<>>))
           => (/\ pc' = "ready"
               /\ ~lastCall'.panic
               /\ lastCall'.sunk = <<>>
               /\ sink' = sink
               /\ redactor'.offset = redactor.offset
               /\ redactor'.outbuf = redactor.outbuf)]_vars

\* C11's case: a Write of an empty chunk that returned, while outbuf held
\* bytes of an earlier chunk and the offset was not zero.
C11_Witness ==
    /\ needles # <<>>
    /\ lastCall.op = "Write" /\ lastCall.input = <<>> /\ ~lastCall.panic
    /\ lastCall.before # <<>>
    /\ redactor.outbuf = lastCall.before
    /\ redactor.offset > 0

\* The (0-based) index of the last line ending of s, -1 when it has none.
RECURSIVE LastLineEnd(_)
LastLineEnd(s) ==
    IF s = <<>> THEN -1
    ELSE IF s[Len(s)] = CR \/ s[Len(s)] = LF THEN Len(s) - 1
    ELSE LastLineEnd(SubSeq(s, 1, Len(s) - 1))

\* C12 (line flush): outbuf never holds a line ending; and when a Write of
\* a chunk with a line ending has returned, it has written to the wrapped
\* writer, and what it retains is an end of the chunk that starts after the
\* chunk's last line ending.
C12_LineFlush ==
    pc = "ready"
        => /\ ~HasLineEnd(redactor.outbuf)
           /\ (lastCall.op = "Write" /\ HasLineEnd(lastCall.input))
                  => /\ Len(lastCall.sunk) = 1
                     /\ \E k \in LastLineEnd(lastCall.input) + 1 .. Len(lastCall.input) :
                            redactor.outbuf = Slice(lastCall.input, k, Len(lastCall.input))

\* C12's case: a Write of a chunk that ends a line and begins the next one,
\* while outbuf held the beginning of the line: the line is written and the
\* partial line retained.
C12_Witness ==
    /\ pc = "ready" /\ lastCall.op = "Write"
    /\ lastCall.before # <<>>
    /\ HasLineEnd(lastCall.input)
    /\ redactor.outbuf # <<>>
    /\ ~HasLineEnd(redactor.outbuf)
    /\ lastCall.sunk = << lastCall.before
                          \o Slice(lastCall.input, 0, LastLineEnd(lastCall.input) + 1) >>

\* C13 (candidate precedence): when the only occurrences of needles in the
\* input are two needles that end at the same place, the one given first to
\* NewRedactor is the one replaced: after the Writes and one Sync the output
\* is the input with that needle's bytes replaced by one replacement.
C13_CandidatePrecedence ==
    (FlushedOnce /\ PlainSecrets)
        => \A j1, j2 \in 1 .. Len(needles) : \A i1, i2 \in 0 .. Len(written) :
               (/\ j1 < j2
                /\ i1 + Len(needles[j1]) = i2 + Len(needles[j2])
                /\ Occurrences(needles, written) = { << j1, i1 >>, << j2, i2 >> })
                   => sink = Substituted(j1, i1)

\* C13 for the runs of one Write.
C13_InOneWrite == Len(chunks) = 1 => C13_CandidatePrecedence

\* C14 (table of 256 entries): with a non-empty needle list, neither
\* NewRedactor nor a Write panics, whatever bytes the needles and the
\* chunks hold.
C14_NoLookupPanic == needles # <<>> => pc # "panicked"

\* C14 for the Writes alone: a Write on a Redactor that NewRedactor has built
\* from a non-empty needle list does not panic.
C14_NoLookupPanicInWrite ==
    (needles # <<>> /\ lastCall.op = "Write") => ~lastCall.panic

Min(S) == CHOOSE x \in S : \A y \in S : x <= y

\* The length of the shortest needle, 0 when there is none.
ShortestLen ==
    IF needles = <<>> THEN 0 ELSE Min({ Len(needles[j]) : j \in 1 .. Len(needles) })

\* The needles that hold byte b.
Holders(b) ==
    { j \in 1 .. Len(needles) : \E p \in 1 .. Len(needles[j]) : needles[j][p] = b }

\* The distance from the rightmost occurrence of byte b in a needle that
\* holds it to the needle's end.
EndDistance(needle, b) ==
    LET rightmost == CHOOSE p \in 1 .. Len(needle) :
                         /\ needle[p] = b
                         /\ \A q \in p + 1 .. Len(needle) : needle[q] # b
    IN  Len(needle) - rightmost

\* Those distances, over the needles that hold b.
EndDistances(b) == { EndDistance(needles[j], b) : j \in Holders(b) }

\* C15 (skip value): the skip of a byte is the least distance from its
\* rightmost occurrence in a needle to the needle's end over the needles
\* that hold it, and the shortest needle's length when no needle holds it.
\* Stated for the bytes whose least distance is at most the shortest
\* needle's length: a skip beyond that length would jump over an end of the
\* shortest needle.
C15_SkipValue ==
    pc = "ready"
        => \A b \in TableIndex :
               IF EndDistances(b) = {}
               THEN redactor.table[b].skip = ShortestLen
               ELSE Min(EndDistances(b)) <= ShortestLen
                        => redactor.table[b].skip = Min(EndDistances(b))

\* The needles hold ASCII bytes only.
AsciiNeedles ==
    \A j \in 1 .. Len(needles) : \A p \in 1 .. Len(needles[j]) : needles[j][p] < 128

\* For needles of ASCII bytes the skip of every byte is the least of the
\* shortest needle's length and those distances.
SkipValueAscii ==
    (pc = "ready" /\ AsciiNeedles)
        => \A b \in TableIndex :
               redactor.table[b].skip = Min({ ShortestLen } \cup EndDistances(b))

\* C16 (end of Write): a Write that returns has written to the wrapped
\* writer at most once, and once exactly when doneTo > 0; outbuf is then
\* input[doneTo:].  With doneTo = 0 nothing is written and outbuf is what it
\* held before followed by the whole input.
C16_EndOfWrite ==
    (lastCall.op = "Write" /\ ~lastCall.panic)
        => /\ Len(lastCall.sunk) <= 1
           /\ Len(lastCall.sunk) = 1 <=> lastCall.doneTo > 0
           /\ lastCall.doneTo > 0
                  => redactor.outbuf
                         = Slice(lastCall.input, lastCall.doneTo, Len(lastCall.input))
           /\ lastCall.doneTo = 0
                  => redactor.outbuf = lastCall.before \o lastCall.input

\* C16's cases: a Write that pushed outbuf down and retained a part of its
\* input, after a Write that only added its input to outbuf.
C16_Witness ==
    /\ lastCall.op = "Write" /\ ~lastCall.panic
    /\ lastCall.doneTo > 0 /\ lastCall.doneTo < Len(lastCall.input)
    /\ Len(lastCall.sunk) = 1
    /\ Len(chunks) = 2
    /\ lastCall.before = chunks[1] /\ chunks[1] # <<>>
    /\ redactor.outbuf # <<>>

\* out, from index o on, is inp from index i on with occurrences of needles
\* replaced: every byte of out is a byte of inp copied in its place, or a
\* byte of the replacement put for a needle that occurs in inp at that place.
RECURSIVE Redaction(_, _, _, _)
Redaction(out, o, inp, i) ==
    IF i = Len(inp) THEN o = Len(out)
    ELSE \/ /\ o < Len(out)
            /\ At(out, o) = At(inp, i)
            /\ Redaction(out, o + 1, inp, i + 1)
         \/ \E j \in 1 .. Len(needles) :
                /\ OccursAt(needles[j], inp, i)
                /\ OccursAt(replacement, out, o)
                /\ Redaction(out, o + Len(replacement), inp, i + Len(needles[j]))

\* No two occurrences of needles in the input share a byte.
ApartOccurrences ==
    \A o1, o2 \in Occurrences(needles, written) :
        o1 # o2 => \/ o1[2] + Len(needles[o1[1]]) <= o2[2]
                   \/ o2[2] + Len(needles[o2[1]]) <= o1[2]

\* C17 (no false positives): after the Writes and Sync, every replacement
\* in the output stands for an occurrence of a needle in the input at that
\* place, the other bytes being the input's.  Stated for the inputs without
\* line endings in which no two occurrences of needles share a byte.
C17_NoFalsePositive ==
    (FlushedOnce /\ ~HasLineEnd(written) /\ ApartOccurrences)
        => Redaction(sink, 0, written, 0)

\* C18 (offset): with needles, offset is never negative; it is the shortest
\* needle's length - 1 after NewRedactor.
C18_OffsetNotNegative ==
    needles # <<>>
        => /\ redactor.offset >= 0
           /\ (pc = "ready" /\ lastCall.op = "NewRedactor")
                  => redactor.offset = ShortestLen - 1

\* C18's case: the scan of a Write ended on the last byte of an input that
\* is not empty, so the next Write starts at index 0; the Write before it
\* left an offset beyond 0.
C18_Witness ==
    /\ needles # <<>> /\ pc = "ready"
    /\ lastCall.op = "Write" /\ ~lastCall.panic
    /\ Len(chunks) = 2 /\ chunks[1] # <<>> /\ chunks[2] # <<>>
    /\ Len(needles[1]) = 3
    /\ redactor.offset = 0

====
